---- MODULE Spec2Model ----
(***************************************************************************)
(* Weekly schedule (src/app.py): the activity store kept in the session    *)
(* state, the form / clear / export handlers, the view configuration, the  *)
(* overlap test, the pastel colour and the rendered grid.                  *)
(*                                                                         *)
(* Every interaction re-runs the whole script, so every action is one run: *)
(* the handler of the widget that fired, then render_horario, then the     *)
(* export block.                                                           *)
(*                                                                         *)
(* Text that the code inspects character by character (titles, places,     *)
(* notes, formatted times, colours) is a sequence of one-character         *)
(* strings.  Day names are only compared as wholes and stay strings.       *)
(***************************************************************************)
EXTENDS Integers, Sequences, FiniteSets, TLC

VARIABLES
    actividades,   \* st.session_state.actividades
    start_hour,    \* number_input "Hora inicio del dia"
    end_hour,      \* number_input "Hora fin del dia"
    req,           \* the widget that triggered the last run, with the form values it delivered
    sidebar,       \* message written to the sidebar by the last run
    html,          \* the grid written by st.markdown in the last run
    download,      \* outcome of the export block in the last run
    probe          \* a direct call of a pure function: its arguments and its results

vars == <<actividades, start_hour, end_hour, req, sidebar, html, download, probe>>

-----------------------------------------------------------------------------
(* Bounds *)

MaxActs == 4          \* longest collection explored
MaxCalls == 2         \* calls of the colour function on one text
MaxProbeHour == 24    \* hour buckets 0..MaxProbeHour handed to _overlaps

-----------------------------------------------------------------------------
(* Data model *)

DIAS == <<"Lunes", "Martes", "Miércoles", "Jueves", "Viernes", "Sábado", "Domingo">>

DiaSet == {DIAS[i] : i \in 1..Len(DIAS)}

time(h, m) == [hour |-> h, minute |-> m]

Actividad(dia, titulo, inicio, fin, lugar, nota) ==
    [dia |-> dia, titulo |-> titulo, inicio |-> inicio, fin |-> fin,
     lugar |-> lugar, nota |-> nota]

\* datetime.time ordering: fields compared in order (seconds are always 0 here)
TimeLE_strict(a, b) ==
    \/ a.hour < b.hour
    \/ a.hour = b.hour /\ a.minute < b.minute

TimeLE_hour(a, b) == a.hour < b.hour

TimeLE(a, b) ==
    \/ a.hour < b.hour
    \/ a.hour = b.hour /\ a.minute <= b.minute

-----------------------------------------------------------------------------
(* Text helpers *)

Whitespace == {" ", "\t", "\n"}

RECURSIVE lstrip(_)
lstrip(s) ==
    IF s = <<>> THEN s
    ELSE IF Head(s) \in Whitespace THEN lstrip(Tail(s)) ELSE s

RECURSIVE rstrip(_)
rstrip(s) ==
    IF s = <<>> THEN s
    ELSE IF s[Len(s)] \in Whitespace THEN rstrip(SubSeq(s, 1, Len(s) - 1)) ELSE s

strip_left_only(s) == lstrip(s)

\* str.strip()
strip(s) == rstrip(lstrip(s))

HexDigits == <<"0", "1", "2", "3", "4", "5", "6", "7", "8", "9",
               "a", "b", "c", "d", "e", "f">>

RECURSIVE hex(_)
\* format spec "x": lowercase hexadecimal, no padding
hex(n) == IF n < 16 THEN <<HexDigits[n + 1]>>
          ELSE hex(n \div 16) \o <<HexDigits[(n % 16) + 1]>>

RECURSIVE dec(_)
\* format spec "d"
dec(n) == IF n < 10 THEN <<HexDigits[n + 1]>>
          ELSE dec(n \div 10) \o <<HexDigits[(n % 10) + 1]>>

RECURSIVE zfill(_, _)
\* the "0<w>" part of a format spec: pad with zeros on the left up to width w
zfill(s, w) == IF Len(s) >= w THEN s ELSE zfill(<<"0">> \o s, w)

fmt02x(n) == zfill(hex(n), 2)    \* f"{n:02x}"
fmt02d(n) == zfill(dec(n), 2)    \* f"{n:02d}" and strftime %H / %M

\* t.strftime('%H:%M')
strftime(t) == fmt02d(t.hour) \o <<":">> \o fmt02d(t.minute)

-----------------------------------------------------------------------------
(* Colour *)

T_PLE_B1 == <<"P", "L", "E", " ", "B", "1">>
T_Reunion == <<"R", "e", "u", "n", "i", "ó", "n", " ", "e", "q", "u", "i", "p", "o">>
T_Oficina == <<"O", "f", "i", "c", "i", "n", "a", " ", "P", "L", "E">>
T_A == <<"A">>
T_X == <<"X">>
T_x == <<"x">>

\* hashlib.md5(text.encode()).hexdigest()[0:6] as three byte values, for the
\* seeded titles, the sentinel "x" and the titles the form delivers, padded
\* or not
md5(text) ==
    CASE text = T_PLE_B1 -> <<52, 212, 132>>
      [] text = T_Reunion -> <<211, 214, 120>>
      [] text = T_Oficina -> <<241, 128, 128>>
      [] text = T_A -> <<127, 197, 98>>
      [] text = T_X -> <<2, 18, 155>>
      [] text = T_x -> <<157, 212, 228>>
      [] text = <<" ", "A", " ">> -> <<149, 17, 150>>
      [] text = <<"A", " ">> -> <<103, 67, 185>>
      [] text = <<" ", "A">> -> <<74, 31, 16>>
      [] text = <<" ", " ">> -> <<35, 181, 141>>

pastel_wrap(byte) == (byte + 200) % 256

\* (int(h[i:i+2], 16) + 200) // 2
pastel(byte) == (byte + 200) \div 2

\* the body of _hex_color_from_text once the digest h is known
hex_color_from_digest(h) ==
    <<"#">> \o fmt02x(pastel(h[1])) \o fmt02x(pastel(h[2])) \o fmt02x(pastel(h[3]))

_hex_color_from_text(text) == hex_color_from_digest(md5(text))

-----------------------------------------------------------------------------
(* Overlap *)

_to_minutes(t) == t.hour * 60 + t.minute

_overlaps_inclusive(hh, act) ==
    /\ _to_minutes(act.inicio) <= (hh + 1) * 60
    /\ _to_minutes(act.fin) >= hh * 60

_overlaps_start(hh, act) ==
    /\ _to_minutes(act.inicio) >= hh * 60
    /\ _to_minutes(act.inicio) < (hh + 1) * 60

_overlaps(hh, act) ==
    LET start == _to_minutes(act.inicio)
        end == _to_minutes(act.fin)
        block_start == hh * 60
        block_end == (hh + 1) * 60
    IN  (start < block_end) /\ (end > block_start)

-----------------------------------------------------------------------------
(* View configuration *)

MinStartHour == 5
MaxStartHour == 12
MinEndHour == 13
MaxEndHour == 23
DefaultStartHour == 7
DefaultEndHour == 21

\* list(range(int(start_hour), int(end_hour)))
HORAS(sh, eh) == [i \in 1..(eh - sh) |-> sh + i - 1]

-----------------------------------------------------------------------------
(* Grid *)

RECURSIVE index_por_dia(_, _)
\* for a in acts: por_dia[a.dia].append(a)
index_por_dia(acts, por_dia) ==
    IF acts = <<>> THEN por_dia
    ELSE index_por_dia(Tail(acts),
                       [por_dia EXCEPT ![Head(acts).dia] = Append(@, Head(acts))])

\* the chip of one activity: background colour, title and the <small> line.
\* "-" stands for the en dash the code puts between the two times.
chip(a) ==
    LET col == _hex_color_from_text(IF a.titulo /= <<>> THEN a.titulo ELSE T_x)
        rango == strftime(a.inicio) \o <<"-">> \o strftime(a.fin)
        subt == IF a.lugar /= <<>> THEN a.lugar ELSE a.nota
        subline == IF subt /= <<>> THEN rango \o <<" ", "·", " ">> \o subt ELSE rango
    IN  [background |-> col, titulo |-> a.titulo, small |-> subline]

celdas_any_day(hh, d, por_dia, acts) ==
    LET hit == SelectSeq(acts, LAMBDA a : _overlaps(hh, a))
    IN  [i \in 1..Len(hit) |-> chip(hit[i])]

\* the chips of cell (hh, d)
celdas(hh, d, por_dia, acts) ==
    LET hit == SelectSeq(por_dia[d], LAMBDA a : _overlaps(hh, a))
    IN  [i \in 1..Len(hit) |-> chip(hit[i])]

render_horario(acts, horas) ==
    LET por_dia == index_por_dia(acts, [d \in DiaSet |-> <<>>])
    IN  [thead |-> <<"Hora">> \o DIAS,
         tbody |-> [r \in 1..Len(horas) |->
                      [hour |-> fmt02d(horas[r]) \o <<":", "0", "0">>,
                       cells |-> [c \in 1..Len(DIAS) |->
                                    celdas(horas[r], DIAS[c], por_dia, acts)]]]]

-----------------------------------------------------------------------------
(* Export *)

\* dataclasses.asdict: field name, Python type of the value, value
asdict(a) ==
    << <<"dia", "str", a.dia>>, <<"titulo", "str", a.titulo>>,
       <<"inicio", "time", a.inicio>>, <<"fin", "time", a.fin>>,
       <<"lugar", "str", a.lugar>>, <<"nota", "str", a.nota>> >>

\* the types json.JSONEncoder encodes when no default= hook is given
JsonTypes == {"str", "int", "float", "bool", "NoneType", "list", "dict"}

\* json.dumps(data, ensure_ascii=False, indent=2): a value of any other type
\* raises TypeError and no document is produced
json_dumps(data) ==
    IF \E i \in 1..Len(data) : \E j \in 1..Len(data[i]) : data[i][j][2] \notin JsonTypes
    THEN [status |-> "TypeError", file_name |-> "", doc |-> <<>>]
    ELSE [status |-> "ok", file_name |-> "horario.json", doc |-> data]

NoDownload == [status |-> "none", file_name |-> "", doc |-> <<>>]

-----------------------------------------------------------------------------
(* Session state after the first run *)

Seed ==
    << Actividad("Lunes", T_PLE_B1, time(9, 0), time(11, 0),
                 <<"A", "u", "l", "a", " ", "3">>, <<>>),
       Actividad("Martes", T_Reunion, time(15, 0), time(16, 0),
                 <<"Z", "o", "o", "m">>, <<>>),
       Actividad("Viernes", T_Oficina, time(10, 30), time(12, 0),
                 <<"I", "G", "R", " ", "L", "i", "m", "a">>, <<>>) >>

NoForm == [dia |-> "", titulo |-> <<>>, inicio |-> time(0, 0), fin |-> time(0, 0),
           lugar |-> <<>>, nota |-> <<>>]

NoProbe == [fn |-> "none"]

MsgError == "La hora de fin debe ser mayor que la de inicio."
MsgSuccess == "Actividad agregada"
MsgInfo == "Horario vacío."

Init ==
    /\ actividades = Seed
    /\ start_hour = DefaultStartHour
    /\ end_hour = DefaultEndHour
    /\ req = [widget |-> "none", form |-> NoForm]
    /\ sidebar = ""
    /\ html = render_horario(Seed, HORAS(DefaultStartHour, DefaultEndHour))
    /\ download = NoDownload
    /\ probe = NoProbe

-----------------------------------------------------------------------------
(* Form submissions explored *)

FormInputs ==
    { \* padded title, note only, starts before the seeded Monday class
      Actividad("Lunes", <<" ", "A", " ">>, time(8, 30), time(10, 0), <<>>, <<" ", "n">>),
      \* blank title and place, no note, after the last displayable hour
      Actividad("Viernes", <<" ", " ">>, time(23, 0), time(23, 30), <<" ", " ">>, <<>>),
      \* end before start
      Actividad("Lunes", T_X, time(10, 0), time(9, 0), <<>>, <<>>),
      \* end equal to start
      Actividad("Martes", T_A, time(10, 0), time(10, 0), <<>>, <<>>),
      \* end before start within the same hour
      Actividad("Viernes", T_A, time(9, 55), time(9, 5), <<>>, <<>>) }

-----------------------------------------------------------------------------
(* Handlers: one action is one run of the script *)

list_append_front(l, a) == <<a>> \o l

\* list.append
list_append(l, a) == Append(l, a)

list_clear_tail(l) == IF l = <<>> THEN l ELSE Tail(l)

\* list.clear
list_clear(l) == <<>>

\* "Agregar" submitted with the form values f
Agregar(f) ==
    /\ Len(actividades) < MaxActs
    /\ req' = [widget |-> "agregar", form |-> f]
    /\ IF TimeLE(f.fin, f.inicio)
       THEN /\ sidebar' = MsgError
            /\ actividades' = actividades
       ELSE /\ actividades' = list_append(actividades,
                                Actividad(f.dia, strip(f.titulo), f.inicio, f.fin,
                                          strip(f.lugar), strip(f.nota)))
            /\ sidebar' = MsgSuccess
    /\ html' = render_horario(actividades', HORAS(start_hour, end_hour))
    /\ download' = NoDownload
    /\ UNCHANGED <<start_hour, end_hour, probe>>

\* "Limpiar horario" clicked
Limpiar ==
    /\ req' = [widget |-> "limpiar", form |-> NoForm]
    /\ actividades' = list_clear(actividades)
    /\ sidebar' = MsgInfo
    /\ html' = render_horario(actividades', HORAS(start_hour, end_hour))
    /\ download' = NoDownload
    /\ UNCHANGED <<start_hour, end_hour, probe>>

\* "Hora inicio del dia" stepped (step=1) to v
SetStartHour(v) ==
    /\ v \in {start_hour - 1, start_hour + 1}
    /\ start_hour' = v
    /\ req' = [widget |-> "start_hour", form |-> NoForm]
    /\ sidebar' = ""
    /\ html' = render_horario(actividades, HORAS(v, end_hour))
    /\ download' = NoDownload
    /\ UNCHANGED <<actividades, end_hour, probe>>

\* "Hora fin del dia" stepped (step=1) to v
SetEndHour(v) ==
    /\ v \in {end_hour - 1, end_hour + 1}
    /\ end_hour' = v
    /\ req' = [widget |-> "end_hour", form |-> NoForm]
    /\ sidebar' = ""
    /\ html' = render_horario(actividades, HORAS(start_hour, v))
    /\ download' = NoDownload
    /\ UNCHANGED <<actividades, start_hour, probe>>

\* "Exportar horario a JSON" clicked
Exportar ==
    /\ req' = [widget |-> "exportar", form |-> NoForm]
    /\ sidebar' = ""
    /\ html' = render_horario(actividades, HORAS(start_hour, end_hour))
    /\ download' = json_dumps([i \in 1..Len(actividades) |-> asdict(actividades[i])])
    /\ UNCHANGED <<actividades, start_hour, end_hour, probe>>

Next ==
    \/ \E f \in FormInputs : Agregar(f)
    \/ Limpiar
    \/ \E v \in MinStartHour..MaxStartHour : SetStartHour(v)
    \/ \E v \in MinEndHour..MaxEndHour : SetEndHour(v)
    \/ Exportar

Spec == Init /\ [][Next]_vars

-----------------------------------------------------------------------------
(* Direct calls of _overlaps *)

ProbeMinutes == {0, 59}

ProbeTimes == {time(h, m) : h \in 0..23, m \in ProbeMinutes}

InitOverlaps ==
    /\ actividades = Seed
    /\ start_hour = DefaultStartHour
    /\ end_hour = DefaultEndHour
    /\ req = [widget |-> "none", form |-> NoForm]
    /\ sidebar = ""
    /\ html = render_horario(Seed, HORAS(DefaultStartHour, DefaultEndHour))
    /\ download = NoDownload
    /\ probe \in {[fn |-> "_overlaps", hh |-> h,
                   act |-> Actividad("Lunes", T_A, s, e, <<>>, <<>>), out |-> <<>>] :
                  h \in 0..MaxProbeHour, s \in ProbeTimes, e \in ProbeTimes}

CallOverlaps ==
    /\ probe.fn = "_overlaps"
    /\ probe.out = <<>>
    /\ probe' = [probe EXCEPT !.out = <<_overlaps(probe.hh, probe.act)>>]
    /\ UNCHANGED <<actividades, start_hour, end_hour, req, sidebar, html, download>>

NextOverlaps == CallOverlaps

SpecOverlaps == InitOverlaps /\ [][NextOverlaps]_vars

-----------------------------------------------------------------------------
(* Direct calls of _hex_color_from_text on one text whose digest starts *)
(* with the bytes h                                                      *)

ByteEdge == {0, 55, 255}

Digests ==
    {<<x, a, b>> : x \in 0..255, a \in ByteEdge, b \in ByteEdge}
    \cup {<<a, x, b>> : x \in 0..255, a \in ByteEdge, b \in ByteEdge}
    \cup {<<a, b, x>> : x \in 0..255, a \in ByteEdge, b \in ByteEdge}

InitColor ==
    /\ actividades = Seed
    /\ start_hour = DefaultStartHour
    /\ end_hour = DefaultEndHour
    /\ req = [widget |-> "none", form |-> NoForm]
    /\ sidebar = ""
    /\ html = render_horario(Seed, HORAS(DefaultStartHour, DefaultEndHour))
    /\ download = NoDownload
    /\ probe \in {[fn |-> "_hex_color_from_text", h |-> d, out |-> <<>>] : d \in Digests}

CallColor ==
    /\ probe.fn = "_hex_color_from_text"
    /\ Len(probe.out) < MaxCalls
    /\ probe' = [probe EXCEPT !.out = Append(@, hex_color_from_digest(probe.h))]
    /\ UNCHANGED <<actividades, start_hour, end_hour, req, sidebar, html, download>>

NextColor == CallColor

SpecColor == InitColor /\ [][NextColor]_vars

-----------------------------------------------------------------------------
(* Vocabulary of the properties *)

\* minutes since midnight, written out from the two fields
Minutes(t) == 60 * t.hour + t.minute

CeilDiv60(n) == (n + 59) \div 60

DigitVal(c) == CHOOSE n \in 0..15 : HexDigits[n + 1] = c

LowerHex == {HexDigits[i] : i \in 1..16}

\* value of a two-character numeral in the given base
Num2(s, base) == DigitVal(s[1]) * base + DigitVal(s[2])

IsAdd == req.widget = "agregar"

LastAct == actividades[Len(actividades)]

\* the activities a cell (hour h, day d) has to show, in store order
Due(h, d) == SelectSeq(actividades, LAMBDA a : a.dia = d /\ _overlaps(h, a))

Cell(r, c) == html.tbody[r].cells[c]

DiaIndex(d) == CHOOSE c \in 1..Len(DIAS) : DIAS[c] = d

\* the hours of the rows whose cell in column c holds the chip k
RowsWith(k, c) ==
    {start_hour + r - 1 : r \in {q \in 1..Len(html.tbody) :
                                   \E i \in 1..Len(Cell(q, c)) : Cell(q, c)[i] = k}}

\* t is e without its leading and trailing whitespace
IsTrimOf(t, e) ==
    /\ t /= <<>> => (t[1] \notin Whitespace /\ t[Len(t)] \notin Whitespace)
    /\ \E a \in 0..Len(e) :
          /\ a + Len(t) <= Len(e)
          /\ SubSeq(e, a + 1, a + Len(t)) = t
          /\ \A k \in 1..a : e[k] \in Whitespace
          /\ \A k \in (a + Len(t) + 1)..Len(e) : e[k] \in Whitespace

\* "HH:MM" back to a time
parse_time(s) == time(Num2(SubSeq(s, 1, 2), 10), Num2(SubSeq(s, 4, 5), 10))

\* a loader for the exported document: one Actividad per object, field by field
load(doc) ==
    [i \in 1..Len(doc) |->
        Actividad(doc[i][1][3], doc[i][2][3], parse_time(doc[i][3][3]),
                  parse_time(doc[i][4][3]), doc[i][5][3], doc[i][6][3])]

-----------------------------------------------------------------------------
(* Properties *)

\* C1: a submission whose end is not after its start (equal included) is
\* answered with the invalid-range message and leaves the collection exactly
\* as it was.
C1_RejectedAddLeavesStore ==
    [][(req'.widget = "agregar" /\ Minutes(req'.form.fin) <= Minutes(req'.form.inicio))
         => (actividades' = actividades /\ sidebar' = MsgError)]_vars

C1_Witness ==
    /\ IsAdd
    /\ req.form.fin = req.form.inicio
    /\ sidebar = MsgError
    /\ actividades = Seed

\* C2: a submission whose end is after its start succeeds and the collection
\* becomes the old one with one activity added at the end: one longer, every
\* earlier element in place, the new last element carrying the submitted day
\* and times, also when an equal activity is already stored.
C2_AcceptedAddAppends ==
    [][(req'.widget = "agregar" /\ Minutes(req'.form.fin) > Minutes(req'.form.inicio))
         => /\ sidebar' = MsgSuccess
            /\ Len(actividades') = Len(actividades) + 1
            /\ SubSeq(actividades', 1, Len(actividades)) = actividades
            /\ actividades'[Len(actividades')].dia = req'.form.dia
            /\ actividades'[Len(actividades')].inicio = req'.form.inicio
            /\ actividades'[Len(actividades')].fin = req'.form.fin]_vars

C2_Witness ==
    /\ IsAdd
    /\ sidebar = MsgSuccess
    /\ Len(actividades) >= 3
    /\ LastAct = actividades[Len(actividades) - 1]
    /\ actividades[Len(actividades) - 2] /= LastAct

\* C3: _overlaps(h, a) is true exactly when the start is before the end of the
\* bucket and the end is after its start; an activity ending at h:00 is not in
\* bucket h, and one that starts at h:00 and ends later is.
C3_OverlapsHalfOpen ==
    probe.out /= <<>> =>
        LET s == Minutes(probe.act.inicio)
            e == Minutes(probe.act.fin)
            h == probe.hh
        IN  /\ probe.out[1] <=> (s < (h + 1) * 60 /\ e > h * 60)
            /\ e = h * 60 => ~probe.out[1]
            /\ (s = h * 60 /\ e > s) => probe.out[1]

C3_Witness ==
    /\ probe.out = <<FALSE>>
    /\ Minutes(probe.act.fin) = probe.hh * 60
    /\ Minutes(probe.act.inicio) < Minutes(probe.act.fin)

\* C4: the grid has one row per hour of [start_hour, end_hour), ascending, one
\* cell per day in the canonical order, and cell (h, d) holds one chip for each
\* stored activity of day d that overlaps h, in store order, and nothing else.
C4_GridCells ==
    /\ Len(html.tbody) = end_hour - start_hour
    /\ \A c \in 1..Len(DIAS) : html.thead[c + 1] = DIAS[c]
    /\ \A r \in 1..Len(html.tbody) :
          /\ Num2(SubSeq(html.tbody[r].hour, 1, 2), 10) = start_hour + r - 1
          /\ Len(html.tbody[r].cells) = Len(DIAS)
          /\ \A c \in 1..Len(DIAS) :
                LET due == Due(start_hour + r - 1, DIAS[c])
                IN  /\ Len(Cell(r, c)) = Len(due)
                    /\ \A i \in 1..Len(due) : Cell(r, c)[i] = chip(due[i])

C4_Witness ==
    \E i \in 1..Len(actividades) : \E j \in (i + 1)..Len(actividades) :
        /\ actividades[i].dia = actividades[j].dia
        /\ Minutes(actividades[i].inicio) > Minutes(actividades[j].inicio)
        /\ \E r \in 1..Len(html.tbody) :
              /\ Len(Cell(r, DiaIndex(actividades[i].dia))) >= 2
              /\ Cell(r, DiaIndex(actividades[i].dia))[1] = chip(actividades[i])
              /\ Cell(r, DiaIndex(actividades[i].dia))[2] = chip(actividades[j])

\* C5: the export yields a document with one object per stored activity
\* (day, title, start, end, place, note) and loading it gives back the
\* collection, same order, same values.
C5_ExportRoundTrip ==
    req.widget = "exportar" =>
        /\ download.status = "ok"
        /\ Len(download.doc) = Len(actividades)
        /\ \A i \in 1..Len(download.doc) : Len(download.doc[i]) = 6
        /\ load(download.doc) = actividades

\* C6: every stored activity ends after it starts.
C6_EndAfterStart ==
    \A i \in 1..Len(actividades) :
        Minutes(actividades[i].fin) > Minutes(actividades[i].inicio)

C6_Witness ==
    /\ IsAdd
    /\ sidebar = MsgSuccess
    /\ Len(actividades) > Len(Seed)
    /\ LastAct.fin.minute < LastAct.inicio.minute

\* C7: clearing is possible in every state, empties the collection, and a
\* valid submission right after it leaves exactly that one activity.
C7_ClearEmpties ==
    /\ [](ENABLED Limpiar)
    /\ [][/\ req'.widget = "limpiar" => (actividades' = <<>> /\ sidebar' = MsgInfo)
          /\ (/\ req.widget = "limpiar"
              /\ req'.widget = "agregar"
              /\ Minutes(req'.form.fin) > Minutes(req'.form.inicio))
             => /\ Len(actividades') = 1
                /\ actividades'[1].dia = req'.form.dia
                /\ actividades'[1].inicio = req'.form.inicio
                /\ actividades'[1].fin = req'.form.fin]_vars

C7_Witness ==
    /\ IsAdd
    /\ sidebar = MsgSuccess
    /\ Len(actividades) = 1
    /\ LastAct.dia = req.form.dia

\* C8: every call on the same text returns the same string; it is "#" and six
\* lowercase hexadecimal digits, and each channel is (byte + 200) div 2 of the
\* corresponding digest byte.
C8_PastelColor ==
    probe.fn = "_hex_color_from_text" =>
        \A k \in 1..Len(probe.out) :
            LET col == probe.out[k]
            IN  /\ col = probe.out[1]
                /\ Len(col) = 7
                /\ col[1] = "#"
                /\ \A j \in 2..7 : col[j] \in LowerHex
                /\ \A ch \in 1..3 :
                      Num2(SubSeq(col, 2 * ch, 2 * ch + 1), 16) = (probe.h[ch] + 200) \div 2

C8_Witness ==
    /\ probe.fn = "_hex_color_from_text"
    /\ Len(probe.out) = 2
    /\ probe.h = <<255, 0, 55>>
    /\ probe.out[2] = <<"#", "e", "3", "6", "4", "7", "f">>

\* C9 as stated: every stored title is non-empty, and the title appended by a
\* successful submission is the submitted string, character for character.
C9_TitleAsEntered ==
    /\ \A i \in 1..Len(actividades) : actividades[i].titulo /= <<>>
    /\ (IsAdd /\ sidebar = MsgSuccess) => LastAct.titulo = req.form.titulo

\* C9 amended: the title appended by a successful submission is the submitted
\* string without its leading and trailing whitespace, which may leave it
\* empty; no stored title begins or ends with whitespace.
C9_TitleStripped ==
    /\ \A i \in 1..Len(actividades) :
          LET t == actividades[i].titulo
          IN  t /= <<>> => (t[1] \notin Whitespace /\ t[Len(t)] \notin Whitespace)
    /\ (IsAdd /\ sidebar = MsgSuccess) => IsTrimOf(LastAct.titulo, req.form.titulo)

C9_Witness ==
    /\ IsAdd
    /\ sidebar = MsgSuccess
    /\ LastAct.titulo = <<"A">>
    /\ req.form.titulo = <<" ", "A", " ">>
    /\ \E i \in 1..Len(actividades) : actividades[i].titulo = <<>>

\* C10: a stored activity overlaps, among the buckets 0..23, exactly the
\* non-empty run floor(start/60) .. ceil(end/60)-1; in the grid its chip is in
\* the rows of that run that lie in [start_hour, end_hour), possibly none, and
\* only in a column of its own day.
C10_ContiguousRows ==
    \A i \in 1..Len(actividades) :
        LET a == actividades[i]
            lo == Minutes(a.inicio) \div 60
            hi == CeilDiv60(Minutes(a.fin)) - 1
        IN  /\ lo <= hi
            /\ {h \in 0..23 : _overlaps(h, a)} = lo..hi
            /\ RowsWith(chip(a), DiaIndex(a.dia)) = (lo..hi) \cap (start_hour..(end_hour - 1))
            /\ \A c \in 1..Len(DIAS) :
                  RowsWith(chip(a), c) /= {} =>
                      \E j \in 1..Len(actividades) :
                          actividades[j].dia = DIAS[c] /\ chip(actividades[j]) = chip(a)

C10_Witness ==
    /\ \E i \in 1..Len(actividades) :
          RowsWith(chip(actividades[i]), DiaIndex(actividades[i].dia)) = {}
    /\ \E i \in 1..Len(actividades) :
          Cardinality(RowsWith(chip(actividades[i]), DiaIndex(actividades[i].dia))) >= 2
    /\ \E i \in 1..Len(actividades) :
          LET a == actividades[i]
          IN  /\ Minutes(a.inicio) \div 60 < start_hour
              /\ Cardinality(RowsWith(chip(a), DiaIndex(a.dia))) = 1

=============================================================================
